---- MODULE Spec2Model ----
(***************************************************************************)
(* Service-request lifecycle of the household-services marketplace:        *)
(* the customer routes (book_service, update_service_request,              *)
(* review_service, process_payment), the admin route                       *)
(* reassign_professional, and the tables of app/models.py they write.      *)
(***************************************************************************)
EXTENDS Integers, Sequences, FiniteSets, Bags, TLC

(* ------------------------------ bounds -------------------------------- *)

\* rows the service_requests table may hold
MaxRequests == 2

\* how many reviewed requests the tables hold when the dashboard figures
\* are computed over tables that already exist
MaxReviewed == 3

(* ------------------------- populations, inputs ------------------------ *)

\* customers.id of the registered customers
CustomerIds == {1, 2}
\* service_professionals.id of the registered professionals
ProfessionalIds == {1, 2}
\* services.id of the catalogue; the booking form carries one of them
ServiceIds == {1, 2}

\* services.id of every row the catalogue can hold: the two services that
\* professionals offer and one that nobody offers
AllServiceIds == ServiceIds \cup {3}
\* proposed_price values a form may carry
Prices == {100, 200}
\* rating values a review form may carry (the column allows 1..5)
Ratings == {0, 5, 6}
\* request ids a URL may name (one of them may not exist yet)
RequestIds == 1..MaxRequests
\* readings of datetime.utcnow(): two, so that a second stamp can differ
Times == {1, 2}
\* sessions of the web server that may run at the same time
Workers == {1, 2}

\* SQL NULL of a nullable column; request.form.get(...) without a value
NULL == 0

\* class ServiceStatus(enum.Enum)
REQUESTED == "requested"
ACCEPTED == "accepted"
REJECTED == "rejected"
CLOSED == "closed"
PAID == "paid"
ServiceStatus == {REQUESTED, ACCEPTED, REJECTED, CLOSED, PAID}

(* ------------------------------- state -------------------------------- *)

VARIABLES
  requests,      \* table service_requests: row i has id i
  reviews,       \* table reviews: a bag of rows (reviews.id is never read)
  cust_blocked,  \* customers.admin_blocked, by customers.id
  professionals, \* table service_professionals, by service_professionals.id
  services,      \* the services.id of the rows of table services
  sess           \* per worker: the handler it is executing and what it loaded

vars == <<requests, reviews, cust_blocked, professionals, services, sess>>

\* what a session holds of a request before it has loaded one
NoRow == [service_id |-> NULL, customer_id |-> NULL, professional_id |-> NULL,
          proposed_price |-> NULL, date_of_completion |-> NULL,
          service_status |-> "requested"]

\* a worker that is executing no handler. pc: "idle", "loaded" (the request
\* is read, the checks are passed, nothing is flushed) or "done"; loaded:
\* the row as read, or the row the session is about to insert; fresh: no
\* review of the request existed when it was read; seen: how many requests
\* the table held when the session read it (fresh and seen are recorded for
\* the properties, never read by a handler)
IdleSession == [pc |-> "idle", op |-> "none", rid |-> NULL, customer |-> NULL,
                rating |-> NULL, new_prof_id |-> NULL, loaded |-> NoRow,
                fresh |-> FALSE, seen |-> 0, outcome |-> "none"]

\* a professional as registered: professional p offers service p, and the
\* three flags have their column defaults
NewProfessional(p) ==
  [service_id |-> p, is_verified |-> FALSE, verification_failed |-> FALSE,
   admin_blocked |-> FALSE]

Init ==
  /\ requests = <<>>
  /\ reviews = EmptyBag
  /\ cust_blocked = [c \in CustomerIds |-> FALSE]
  /\ professionals = [p \in ProfessionalIds |-> NewProfessional(p)]
  /\ services = AllServiceIds
  /\ sess = [w \in Workers |-> IdleSession]

(* ------------------------------ queries ------------------------------- *)

\* the rows of a table (a sequence) as a set of indexes
Rows(table) == DOMAIN table

\* the reviews.service_request_id = rid rows, as a bag
ReviewsOf(revs, rid) ==
  [r \in {x \in BagToSet(revs) : x.service_request_id = rid} |-> revs[r]]

\* how many review rows name request rid
ReviewCount(revs, rid) == BagCardinality(ReviewsOf(revs, rid))

\* the duplicate check looking at REQUESTED requests only
ActiveRequests_requested_only(reqs, c, p) ==
  {i \in Rows(reqs) : /\ reqs[i].customer_id = c
                      /\ reqs[i].professional_id = p
                      /\ reqs[i].service_status = REQUESTED}

\* ServiceRequests.query.filter(customer, professional, status in (REQUESTED, ACCEPTED))
ActiveRequests(reqs, c, p) ==
  {i \in Rows(reqs) : /\ reqs[i].customer_id = c
                      /\ reqs[i].professional_id = p
                      /\ reqs[i].service_status \in {REQUESTED, ACCEPTED}}

(* ------------------------- the entity store --------------------------- *)

\* the column declared without unique=True
ReviewUnique_absent(revs) == TRUE

\* Reviews.service_request_id: unique=True
ReviewUnique(revs) ==
  \A r \in BagToSet(revs) : ReviewCount(revs, r.service_request_id) = 1

\* a store without the check constraint on Reviews.rating
RatingCheck_absent(revs) == TRUE

\* Reviews.rating: CheckConstraint('rating >= 1 AND rating <= 5'), nullable=False
RatingCheck(revs) ==
  \A r \in BagToSet(revs) : r.rating >= 1 /\ r.rating <= 5

\* Reviews: nullable=False on the four foreign keys
ReviewNotNull(revs) ==
  \A r \in BagToSet(revs) : /\ r.customer_id # NULL
                             /\ r.professional_id # NULL
                             /\ r.service_id # NULL
                             /\ r.service_request_id # NULL

\* ServiceRequests: nullable=False on service_id, customer_id
RequestNotNull(reqs) ==
  \A i \in Rows(reqs) : reqs[i].service_id # NULL /\ reqs[i].customer_id # NULL

\* the constraints the store checks when a transaction is flushed
StoreOK(db) ==
  /\ ReviewUnique(db.reviews)
  /\ RatingCheck(db.reviews)
  /\ ReviewNotNull(db.reviews)
  /\ RequestNotNull(db.requests)

\* the two tables as one value
DB == [requests |-> requests, reviews |-> reviews]

\* the UPDATE the unit of work emits for row rid: only the attributes whose
\* value differs from the one the session loaded are written
Flush(reqs, rid, loaded, edited) ==
  [reqs EXCEPT ![rid] =
     [f \in DOMAIN loaded |-> IF edited[f] # loaded[f] THEN edited[f] ELSE @[f]]]

\* a failed flush that is not rolled back: the UPDATE stays, the INSERT is lost
Commit_no_rollback(old, new) ==
  IF StoreOK(new) THEN new ELSE [old EXCEPT !.requests = new.requests]

\* try: db.session.commit()  except SQLAlchemyError: db.session.rollback()
Commit(old, new) == IF StoreOK(new) THEN new ELSE old

\* customer_required without the admin_blocked check
customer_required_open(c) == TRUE

\* customer_required: a blocked customer is logged out before the handler runs
customer_required(c) == ~cust_blocked[c]

(* --------------------------- book_service ----------------------------- *)

\* the row book_service adds
\* a new request that names no professional
NewRequest_unassigned(c, p, sid, price) ==
  [service_id |-> sid, customer_id |-> c, professional_id |-> NULL,
   proposed_price |-> price, date_of_completion |-> NULL,
   service_status |-> REQUESTED]

NewRequest(c, p, sid, price) ==
  [service_id |-> sid, customer_id |-> c, professional_id |-> p,
   proposed_price |-> price, date_of_completion |-> NULL,
   service_status |-> REQUESTED]

\* the transaction book_service attempts
BookAttempt(db, c, p, sid, price) ==
  [db EXCEPT !.requests = Append(@, NewRequest(c, p, sid, price))]

\* which branch of book_service answers
book_service_response(c, p, sid, price, date_ok, valid) ==
  IF ~customer_required(c) THEN "login"
  ELSE IF ~valid THEN "form_invalid"
  ELSE IF ~date_ok THEN "date_invalid"
  ELSE IF ActiveRequests(requests, c, p) # {} THEN "duplicate"
  ELSE IF StoreOK(BookAttempt(DB, c, p, sid, price)) THEN "success"
  ELSE "db_error"

\* the tables book_service leaves
book_service_result(c, p, sid, price, date_ok, valid) ==
  IF book_service_response(c, p, sid, price, date_ok, valid) \in {"success", "db_error"}
  THEN Commit(DB, BookAttempt(DB, c, p, sid, price))
  ELSE DB

book_service(c, p, sid, price, date_ok, valid) ==
  LET after == book_service_result(c, p, sid, price, date_ok, valid)
  IN /\ Len(after.requests) <= MaxRequests
     /\ requests' = after.requests
     /\ reviews' = after.reviews
     /\ UNCHANGED <<cust_blocked, professionals, services, sess>>

(* ---------------------- update_service_request ------------------------ *)

UpdateAttempt(db, rid, loaded, price) ==
  [db EXCEPT !.requests =
     Flush(@, rid, loaded, [loaded EXCEPT !.proposed_price = price])]

\* update_service_request without its ownership check
update_service_request_response_any_customer(c, rid, price, valid) ==
  IF ~customer_required(c) THEN "login"
  ELSE IF rid \notin Rows(requests) THEN "404"
  ELSE IF requests[rid].service_status # REQUESTED THEN "not_pending"
  ELSE IF ~valid THEN "form_invalid"
  ELSE IF StoreOK(UpdateAttempt(DB, rid, requests[rid], price)) THEN "success"
  ELSE "db_error"

\* update_service_request without its status check
update_service_request_response_any_status(c, rid, price, valid) ==
  IF ~customer_required(c) THEN "login"
  ELSE IF rid \notin Rows(requests) THEN "404"
  ELSE IF requests[rid].customer_id # c THEN "403"
  ELSE IF ~valid THEN "form_invalid"
  ELSE IF StoreOK(UpdateAttempt(DB, rid, requests[rid], price)) THEN "success"
  ELSE "db_error"

update_service_request_response(c, rid, price, valid) ==
  IF ~customer_required(c) THEN "login"
  ELSE IF rid \notin Rows(requests) THEN "404"
  ELSE IF requests[rid].customer_id # c THEN "403"
  ELSE IF requests[rid].service_status # REQUESTED THEN "not_pending"
  ELSE IF ~valid THEN "form_invalid"
  ELSE IF StoreOK(UpdateAttempt(DB, rid, requests[rid], price)) THEN "success"
  ELSE "db_error"

\* the tables update_service_request leaves
update_service_request_result(c, rid, price, valid) ==
  IF update_service_request_response(c, rid, price, valid) \in {"success", "db_error"}
  THEN Commit(DB, UpdateAttempt(DB, rid, requests[rid], price))
  ELSE DB

update_service_request(c, rid, price, valid) ==
  LET after == update_service_request_result(c, rid, price, valid)
  IN /\ requests' = after.requests
     /\ reviews' = after.reviews
     /\ UNCHANGED <<cust_blocked, professionals, services, sess>>

(* --------------------------- review_service --------------------------- *)

\* the row review_service adds, built from the request the session loaded
NewReview(c, rid, loaded, rating) ==
  [customer_id |-> c, professional_id |-> loaded.professional_id,
   service_id |-> loaded.service_id, service_request_id |-> rid,
   rating |-> rating]

\* review_service that adds the review and leaves the request as it is
ReviewAttempt_no_close(db, c, rid, loaded, rating, t) ==
  [requests |-> db.requests,
   reviews |-> db.reviews (+) SetToBag({NewReview(c, rid, loaded, rating)})]

\* the transaction review_service attempts: the INSERT of the review and the
\* UPDATE of the request's status and completion date
ReviewAttempt(db, c, rid, loaded, rating, t) ==
  [requests |-> Flush(db.requests, rid, loaded,
                      [loaded EXCEPT !.service_status = CLOSED,
                                     !.date_of_completion = t]),
   reviews |-> db.reviews (+) SetToBag({NewReview(c, rid, loaded, rating)})]

\* review_service without its ownership check
review_service_response_any_customer(c, rid, rating, valid) ==
  IF ~customer_required(c) THEN "login"
  ELSE IF rid \notin Rows(requests) THEN "404"
  ELSE IF ~valid THEN "form_invalid"
  ELSE IF StoreOK(ReviewAttempt(DB, c, rid, requests[rid], rating, NULL))
       THEN "success"
  ELSE "db_error"

\* review_service with a guard that admits ACCEPTED requests only
review_service_response_accepted_only(c, rid, rating, valid) ==
  IF ~customer_required(c) THEN "login"
  ELSE IF rid \notin Rows(requests) THEN "404"
  ELSE IF requests[rid].customer_id # c THEN "403"
  ELSE IF requests[rid].service_status # ACCEPTED THEN "not_accepted"
  ELSE IF ~valid THEN "form_invalid"
  ELSE IF StoreOK(ReviewAttempt(DB, c, rid, requests[rid], rating, NULL))
       THEN "success"
  ELSE "db_error"

review_service_response(c, rid, rating, valid) ==
  IF ~customer_required(c) THEN "login"
  ELSE IF rid \notin Rows(requests) THEN "404"
  ELSE IF requests[rid].customer_id # c THEN "403"
  ELSE IF ~valid THEN "form_invalid"
  ELSE IF StoreOK(ReviewAttempt(DB, c, rid, requests[rid], rating, NULL))
       THEN "success"
  ELSE "db_error"

\* the tables review_service leaves
review_service_result(c, rid, rating, valid, t) ==
  IF review_service_response(c, rid, rating, valid) \in {"success", "db_error"}
  THEN Commit(DB, ReviewAttempt(DB, c, rid, requests[rid], rating, t))
  ELSE DB

review_service(c, rid, rating, valid, t) ==
  LET after == review_service_result(c, rid, rating, valid, t)
  IN /\ requests' = after.requests
     /\ reviews' = after.reviews
     /\ UNCHANGED <<cust_blocked, professionals, services, sess>>

(* --------------------------- process_payment -------------------------- *)

PaymentAttempt(db, rid, loaded, t) ==
  [db EXCEPT !.requests =
     Flush(@, rid, loaded, [loaded EXCEPT !.service_status = PAID,
                                          !.date_of_completion = t])]

\* process_payment without its status check
process_payment_response_any_status(c, rid) ==
  IF ~customer_required(c) THEN "login"
  ELSE IF rid \notin Rows(requests) THEN "404"
  ELSE IF requests[rid].customer_id # c THEN "403"
  ELSE IF StoreOK(PaymentAttempt(DB, rid, requests[rid], NULL)) THEN "success"
  ELSE "db_error"

process_payment_response(c, rid) ==
  IF ~customer_required(c) THEN "login"
  ELSE IF rid \notin Rows(requests) THEN "404"
  ELSE IF requests[rid].customer_id # c THEN "403"
  ELSE IF requests[rid].service_status # CLOSED THEN "not_closed"
  ELSE IF StoreOK(PaymentAttempt(DB, rid, requests[rid], NULL)) THEN "success"
  ELSE "db_error"

\* the tables process_payment leaves
process_payment_result(c, rid, t) ==
  IF process_payment_response(c, rid) \in {"success", "db_error"}
  THEN Commit(DB, PaymentAttempt(DB, rid, requests[rid], t))
  ELSE DB

process_payment(c, rid, t) ==
  LET after == process_payment_result(c, rid, t)
  IN /\ requests' = after.requests
     /\ reviews' = after.reviews
     /\ UNCHANGED <<cust_blocked, professionals, services, sess>>

(* ------------------------ reassign_professional ----------------------- *)

\* reassign_professional forgetting to reset the status
ReassignAttempt_keeps_status(db, rid, loaded, new_prof_id) ==
  [db EXCEPT !.requests =
     Flush(@, rid, loaded, [loaded EXCEPT !.professional_id = new_prof_id])]

\* a reassignment that also moves the request to the service the new
\* professional offers
ReassignAttempt_moves_service(db, rid, loaded, new_prof_id) ==
  [db EXCEPT !.requests =
     Flush(@, rid, loaded,
           [loaded EXCEPT !.professional_id = new_prof_id,
                          !.service_status = REQUESTED,
                          !.service_id = IF new_prof_id \in DOMAIN professionals
                                         THEN professionals[new_prof_id].service_id
                                         ELSE @])]

ReassignAttempt(db, rid, loaded, new_prof_id) ==
  [db EXCEPT !.requests =
     Flush(@, rid, loaded, [loaded EXCEPT !.professional_id = new_prof_id,
                                          !.service_status = REQUESTED])]

\* reassign_professional without its status check
reassign_professional_response_any_status(rid, new_prof_id) ==
  IF rid \notin Rows(requests) THEN "404"
  ELSE IF new_prof_id = NULL THEN "no_professional"
  ELSE IF StoreOK(ReassignAttempt(DB, rid, requests[rid], new_prof_id))
       THEN "success"
  ELSE "db_error"

reassign_professional_response(rid, new_prof_id) ==
  IF rid \notin Rows(requests) THEN "404"
  ELSE IF new_prof_id = NULL THEN "no_professional"
  ELSE IF requests[rid].service_status # REJECTED THEN "not_rejected"
  ELSE IF StoreOK(ReassignAttempt(DB, rid, requests[rid], new_prof_id))
       THEN "success"
  ELSE "db_error"

\* the tables reassign_professional leaves
reassign_professional_result(rid, new_prof_id) ==
  IF reassign_professional_response(rid, new_prof_id) \in {"success", "db_error"}
  THEN Commit(DB, ReassignAttempt(DB, rid, requests[rid], new_prof_id))
  ELSE DB

reassign_professional(rid, new_prof_id) ==
  LET after == reassign_professional_result(rid, new_prof_id)
  IN /\ requests' = after.requests
     /\ reviews' = after.reviews
     /\ UNCHANGED <<cust_blocked, professionals, services, sess>>

(* ------------- the professional's answer (outside src/) --------------- *)

\* the professional accepts a pending request
accept_request(rid) ==
  /\ rid \in Rows(requests)
  /\ requests[rid].service_status = REQUESTED
  /\ requests' = [requests EXCEPT ![rid].service_status = ACCEPTED]
  /\ UNCHANGED <<reviews, cust_blocked, professionals, services, sess>>

\* the professional rejects a pending request
reject_request(rid) ==
  /\ rid \in Rows(requests)
  /\ requests[rid].service_status = REQUESTED
  /\ requests' = [requests EXCEPT ![rid].service_status = REJECTED]
  /\ UNCHANGED <<reviews, cust_blocked, professionals, services, sess>>

(* ------------------- one handler at a time ---------------------------- *)

\* The handlers' inputs are drawn from the sets of a record `in`:
\* in.customers, in.professionals, in.services, in.prices, in.ratings,
\* in.times.
\* A specification fixes the record.

Book(in) ==
  \E c \in in.customers, p \in in.professionals, sid \in in.services,
     price \in in.prices, date_ok \in BOOLEAN, valid \in BOOLEAN :
     book_service(c, p, sid, price, date_ok, valid)

UpdatePrice(in) ==
  \E c \in in.customers, rid \in RequestIds, price \in in.prices,
     valid \in BOOLEAN :
     update_service_request(c, rid, price, valid)

Review(in) ==
  \E c \in in.customers, rid \in RequestIds, rating \in in.ratings,
     valid \in BOOLEAN, t \in in.times :
     review_service(c, rid, rating, valid, t)

Pay(in) ==
  \E c \in in.customers, rid \in RequestIds, t \in in.times :
     process_payment(c, rid, t)

Reassign(in) ==
  \E rid \in RequestIds, new_prof_id \in in.professionals \cup {NULL} :
     reassign_professional(rid, new_prof_id)

Accept == \E rid \in RequestIds : accept_request(rid)

Reject == \E rid \in RequestIds : reject_request(rid)

Lifecycle(in) ==
  \/ Book(in)
  \/ UpdatePrice(in)
  \/ Review(in)
  \/ Pay(in)
  \/ Reassign(in)
  \/ Accept
  \/ Reject

\* every professional, one price: the status, the dates, the reviews and the
\* (customer, professional) pairs vary
AnyProfessional ==
  [customers |-> CustomerIds, professionals |-> ProfessionalIds,
   services |-> {1}, prices |-> {100}, ratings |-> Ratings, times |-> Times]

\* every price, one professional: the prices, the status, the dates and the
\* reviews vary
AnyPrice ==
  [customers |-> CustomerIds, professionals |-> {1}, services |-> {1},
   prices |-> Prices, ratings |-> Ratings, times |-> Times]

Next == Lifecycle(AnyProfessional)

Spec == Init /\ [][Next]_vars

NextPrice == Lifecycle(AnyPrice)

SpecPrice == Init /\ [][NextPrice]_vars

\* the customers book, review and pay; no professional ever answers
NextDirect ==
  \/ Book(AnyProfessional)
  \/ Review(AnyProfessional)
  \/ Pay(AnyProfessional)

SpecDirect == Init /\ [][NextDirect]_vars

(* ------------------ two sessions at the same time --------------------- *)

\* review_service up to the point where it has read the request and passed
\* its checks; a refused call ends here
review_service_load(w, c, rid, rating, valid) ==
  LET resp == review_service_response(c, rid, rating, valid)
  IN /\ sess[w].pc \in {"idle", "done"}
     /\ sess' = [sess EXCEPT ![w] =
          IF resp \in {"success", "db_error"}
          THEN [pc |-> "loaded", op |-> "review", rid |-> rid, customer |-> c,
                rating |-> rating, new_prof_id |-> NULL,
                loaded |-> requests[rid],
                fresh |-> ReviewCount(reviews, rid) = 0, seen |-> 0,
                outcome |-> "none"]
          ELSE [IdleSession EXCEPT !.pc = "done", !.op = "review",
                                   !.rid = rid, !.outcome = resp]]
     /\ UNCHANGED <<requests, reviews, cust_blocked, professionals, services>>

\* the rest of review_service: the session's INSERT and UPDATE are flushed
\* against the tables as they are now, and committed or rolled back
review_service_commit(w, t) ==
  LET me == sess[w]
      attempt == ReviewAttempt(DB, me.customer, me.rid, me.loaded, me.rating, t)
      after == Commit(DB, attempt)
  IN /\ me.pc = "loaded"
     /\ me.op = "review"
     /\ requests' = after.requests
     /\ reviews' = after.reviews
     /\ sess' = [sess EXCEPT ![w] =
          [IdleSession EXCEPT !.pc = "done", !.op = "review", !.rid = me.rid,
                              !.rating = me.rating, !.fresh = me.fresh,
                              !.outcome = IF StoreOK(attempt) THEN "success"
                                          ELSE "db_error"]]
     /\ UNCHANGED <<cust_blocked, professionals, services>>

ReviewLoad(in) ==
  \E w \in Workers, c \in in.customers, rid \in RequestIds,
     rating \in in.ratings, valid \in BOOLEAN :
     review_service_load(w, c, rid, rating, valid)

ReviewCommit(in) ==
  \E w \in Workers, t \in in.times : review_service_commit(w, t)

\* one customer, one professional, one price, one clock reading: the
\* interleavings of the sessions vary
Few ==
  [customers |-> {1}, professionals |-> {1}, services |-> {1},
   prices |-> {100}, ratings |-> {0, 5}, times |-> {1}]

NextConc ==
  \/ Book(Few)
  \/ Pay(Few)
  \/ Reassign(Few)
  \/ Accept
  \/ Reject
  \/ ReviewLoad(Few)
  \/ ReviewCommit(Few)

SpecConc == Init /\ [][NextConc]_vars

\* book_service up to the point where its duplicate check has passed and the
\* new request is built; a refused call ends here
book_service_load(w, c, p, sid, price, date_ok, valid) ==
  LET resp == book_service_response(c, p, sid, price, date_ok, valid)
  IN /\ sess[w].pc \in {"idle", "done"}
     /\ sess' = [sess EXCEPT ![w] =
          IF resp \in {"success", "db_error"}
          THEN [IdleSession EXCEPT !.pc = "loaded", !.op = "book",
                                   !.customer = c,
                                   !.loaded = NewRequest(c, p, sid, price),
                                   !.seen = Len(requests)]
          ELSE [IdleSession EXCEPT !.pc = "done", !.op = "book",
                                   !.customer = c, !.outcome = resp]]
     /\ UNCHANGED <<requests, reviews, cust_blocked, professionals, services>>

\* the rest of book_service: the session's INSERT is flushed against the
\* table as it is now, and committed or rolled back; rid: the id the new
\* request received
book_service_commit(w) ==
  LET me == sess[w]
      attempt == [DB EXCEPT !.requests = Append(@, me.loaded)]
      after == Commit(DB, attempt)
  IN /\ me.pc = "loaded"
     /\ me.op = "book"
     /\ Len(after.requests) <= MaxRequests
     /\ requests' = after.requests
     /\ reviews' = after.reviews
     /\ sess' = [sess EXCEPT ![w] =
          [me EXCEPT !.pc = "done",
                     !.rid = IF StoreOK(attempt) THEN Len(after.requests)
                             ELSE NULL,
                     !.outcome = IF StoreOK(attempt) THEN "success"
                                 ELSE "db_error"]]
     /\ UNCHANGED <<cust_blocked, professionals, services>>

BookLoad(in) ==
  \E w \in Workers, c \in in.customers, p \in in.professionals,
     sid \in in.services, price \in in.prices, date_ok \in BOOLEAN,
     valid \in BOOLEAN :
     book_service_load(w, c, p, sid, price, date_ok, valid)

BookCommit == \E w \in Workers : book_service_commit(w)

\* two customers, two professionals, one price: the pairs and the
\* interleavings of the two bookings vary
Pairs ==
  [customers |-> CustomerIds, professionals |-> ProfessionalIds,
   services |-> {1}, prices |-> {100}, ratings |-> {5}, times |-> {1}]

NextConcBook ==
  \/ BookLoad(Pairs)
  \/ BookCommit
  \/ Accept
  \/ Reject

SpecConcBook == Init /\ [][NextConcBook]_vars

\* reassign_professional up to the point where it has read the request and
\* passed its checks; a refused call ends here
reassign_professional_load(w, rid, new_prof_id) ==
  LET resp == reassign_professional_response(rid, new_prof_id)
  IN /\ sess[w].pc \in {"idle", "done"}
     /\ sess' = [sess EXCEPT ![w] =
          IF resp \in {"success", "db_error"}
          THEN [IdleSession EXCEPT !.pc = "loaded", !.op = "reassign",
                                   !.rid = rid, !.new_prof_id = new_prof_id,
                                   !.loaded = requests[rid],
                                   !.fresh = ReviewCount(reviews, rid) = 0]
          ELSE [IdleSession EXCEPT !.pc = "done", !.op = "reassign",
                                   !.rid = rid, !.outcome = resp]]
     /\ UNCHANGED <<requests, reviews, cust_blocked, professionals, services>>

\* the rest of reassign_professional: the session's UPDATE is flushed
\* against the table as it is now, and committed or rolled back
reassign_professional_commit(w) ==
  LET me == sess[w]
      attempt == ReassignAttempt(DB, me.rid, me.loaded, me.new_prof_id)
      after == Commit(DB, attempt)
  IN /\ me.pc = "loaded"
     /\ me.op = "reassign"
     /\ requests' = after.requests
     /\ reviews' = after.reviews
     /\ sess' = [sess EXCEPT ![w] =
          [me EXCEPT !.pc = "done",
                     !.outcome = IF StoreOK(attempt) THEN "success"
                                 ELSE "db_error"]]
     /\ UNCHANGED <<cust_blocked, professionals, services>>

ReassignLoad(in) ==
  \E w \in Workers, rid \in RequestIds,
     new_prof_id \in in.professionals \cup {NULL} :
     reassign_professional_load(w, rid, new_prof_id)

ReassignCommit == \E w \in Workers : reassign_professional_commit(w)

\* the administrator's reassignment in one session, the customer's review
\* and payment and the professional's answer in others
NextConcReassign ==
  \/ Book(Few)
  \/ Review(Few)
  \/ Pay(Few)
  \/ Accept
  \/ Reject
  \/ ReassignLoad(Few)
  \/ ReassignCommit

SpecConcReassign == Init /\ [][NextConcReassign]_vars

\* as Few, with both professionals to reassign to
Movers ==
  [customers |-> {1}, professionals |-> ProfessionalIds, services |-> {1},
   prices |-> {100}, ratings |-> {5}, times |-> {1}]

\* the administrator's reassignment to either professional in one session,
\* the customer's booking and review and the professional's rejection in
\* others
NextConcMove ==
  \/ Book(Few)
  \/ Review(Movers)
  \/ Reject
  \/ ReassignLoad(Movers)
  \/ ReassignCommit

SpecConcMove == Init /\ [][NextConcMove]_vars

(* ----------------- the administrator and the accounts ----------------- *)

\* users.id: one administrator, the two customers, the two professionals
UserIds == 1..5

\* users.role
UserRole(u) ==
  IF u = 1 THEN "admin" ELSE IF u \in {2, 3} THEN "customer" ELSE "professional"

\* users.customer: the id of the customer profile of a customer account
UserCustomer(u) == u - 1

\* users.professional: the id of the professional profile of a professional
\* account
UserProfessional(u) == u - 3

\* the two tables that carry the flags, as one value
Profiles == [cust_blocked |-> cust_blocked, professionals |-> professionals]

\* approve_professional that only sets is_verified
ApproveAttempt_keeps_failed(profs, p) ==
  [profs EXCEPT ![p].is_verified = TRUE]

\* prof.is_verified = True; prof.verification_failed = False
ApproveAttempt(profs, p) ==
  [profs EXCEPT ![p].is_verified = TRUE, ![p].verification_failed = FALSE]

\* reject_professional that only sets verification_failed
RejectAttempt_keeps_verified(profs, p) ==
  [profs EXCEPT ![p].verification_failed = TRUE]

\* prof.is_verified = False; prof.verification_failed = True
RejectAttempt(profs, p) ==
  [profs EXCEPT ![p].is_verified = FALSE, ![p].verification_failed = TRUE]

\* the professionals approve_professional leaves (404 for an unknown id)
approve_professional_result(p) ==
  IF p \in DOMAIN professionals THEN ApproveAttempt(professionals, p)
  ELSE professionals

approve_professional(p) ==
  /\ professionals' = approve_professional_result(p)
  /\ UNCHANGED <<requests, reviews, cust_blocked, services, sess>>

\* the professionals reject_professional leaves (404 for an unknown id)
reject_professional_result(p) ==
  IF p \in DOMAIN professionals THEN RejectAttempt(professionals, p)
  ELSE professionals

reject_professional(p) ==
  /\ professionals' = reject_professional_result(p)
  /\ UNCHANGED <<requests, reviews, cust_blocked, services, sess>>

\* profile.admin_blocked = block, on the profile the role of the account
\* selects; an account of another role has no profile to write
BlockAttempt(pr, u, block) ==
  IF UserRole(u) = "customer"
  THEN [pr EXCEPT !.cust_blocked[UserCustomer(u)] = block]
  ELSE IF UserRole(u) = "professional"
  THEN [pr EXCEPT !.professionals[UserProfessional(u)].admin_blocked = block]
  ELSE pr

\* what toggle_user_block flashes: the message and its category
toggle_user_block_response(u, action) ==
  IF u \notin UserIds THEN [msg |-> "404", category |-> "abort"]
  ELSE IF UserRole(u) \notin {"customer", "professional"}
  THEN [msg |-> "profile_not_found", category |-> "danger"]
  ELSE IF action = "block" THEN [msg |-> "blocked", category |-> "warning"]
  ELSE [msg |-> "unblocked", category |-> "success"]

\* the flags toggle_user_block leaves
toggle_user_block_result(u, action) ==
  IF toggle_user_block_response(u, action).msg \in {"blocked", "unblocked"}
  THEN BlockAttempt(Profiles, u, action = "block")
  ELSE Profiles

toggle_user_block(u, action) ==
  LET after == toggle_user_block_result(u, action)
  IN /\ cust_blocked' = after.cust_blocked
     /\ professionals' = after.professionals
     /\ UNCHANGED <<requests, reviews, services, sess>>

\* what _toggle_block_status flashes: the message and its category
toggle_block_status_response(u, block) ==
  IF u \notin UserIds THEN [msg |-> "404", category |-> "abort"]
  ELSE IF block THEN [msg |-> "blocked", category |-> "warning"]
  ELSE [msg |-> "unblocked", category |-> "info"]

\* the flags _toggle_block_status leaves
toggle_block_status_result(u, block) ==
  IF u \in UserIds THEN BlockAttempt(Profiles, u, block) ELSE Profiles

toggle_block_status(u, block) ==
  LET after == toggle_block_status_result(u, block)
  IN /\ cust_blocked' = after.cust_blocked
     /\ professionals' = after.professionals
     /\ UNCHANGED <<requests, reviews, services, sess>>

block_user(u) == toggle_block_status(u, TRUE)

unblock_user(u) == toggle_block_status(u, FALSE)

\* the ids an administrator's call may carry: every row and one that is not
\* there
NoSuchId == 9

\* the action query parameter: "block", "unblock", or absent
BlockActions == {"block", "unblock", "none"}

ApproveProfessional ==
  \E p \in ProfessionalIds \cup {NoSuchId} : approve_professional(p)

RejectProfessional ==
  \E p \in ProfessionalIds \cup {NoSuchId} : reject_professional(p)

ToggleUserBlock ==
  \E u \in UserIds \cup {NoSuchId}, action \in BlockActions :
     toggle_user_block(u, action)

BlockUser == \E u \in UserIds \cup {NoSuchId} : block_user(u)

UnblockUser == \E u \in UserIds \cup {NoSuchId} : unblock_user(u)

\* the lifecycle of the requests of one customer with one professional,
\* while the administrator verifies professionals and blocks accounts
NextAdmin ==
  \/ Lifecycle(Few)
  \/ ApproveProfessional
  \/ RejectProfessional
  \/ ToggleUserBlock
  \/ BlockUser
  \/ UnblockUser

SpecAdmin == Init /\ [][NextAdmin]_vars

(* ------------------- the customer's dashboard figures ----------------- *)

\* a count of the jobs that are CLOSED or PAID
jobs_count_with_paid(reqs, p) ==
  Cardinality({i \in Rows(reqs) : /\ reqs[i].professional_id = p
                                  /\ reqs[i].service_status \in {CLOSED, PAID}})

\* ServiceRequests.query.filter_by(professional_id, service_status=CLOSED).count()
jobs_count(reqs, p) ==
  Cardinality({i \in Rows(reqs) : /\ reqs[i].professional_id = p
                                  /\ reqs[i].service_status = CLOSED})

\* the sum of the ratings of a bag of reviews
RECURSIVE SumRatings(_)
SumRatings(revs) ==
  IF BagToSet(revs) = {} THEN 0
  ELSE LET r == CHOOSE x \in BagToSet(revs) : TRUE
       IN r.rating * revs[r]
          + SumRatings([x \in BagToSet(revs) \ {r} |-> revs[x]])

\* the reviews that name professional p
ReviewsFor(revs, p) ==
  [r \in {x \in BagToSet(revs) : x.professional_id = p} |-> revs[r]]

\* db.session.query(func.avg(Reviews.rating)).filter(...).scalar() or 0,
\* as a fraction: the sum of the ratings over their number, 0/1 for none
avg_rating(revs, p) ==
  LET mine == ReviewsFor(revs, p)
  IN IF BagCardinality(mine) = 0 THEN [num |-> 0, den |-> 1]
     ELSE [num |-> SumRatings(mine), den |-> BagCardinality(mine)]

\* a fraction cut to one decimal place, in tenths
round1_cut(q) == (10 * q.num) \div q.den

\* round(x, 1), in tenths: the nearest tenth, the even one of two that are
\* equally near
round1(q) ==
  LET whole == (10 * q.num) \div q.den
      rest == (10 * q.num) % q.den
  IN IF 2 * rest < q.den THEN whole
     ELSE IF 2 * rest > q.den THEN whole + 1
     ELSE IF whole % 2 = 0 THEN whole
     ELSE whole + 1

\* results[...]['rating'], in tenths
shown_rating(revs, p) == round1(avg_rating(revs, p))

\* customer_dashboard reads the tables and writes nothing
customer_dashboard(c) ==
  /\ customer_required(c)
  /\ UNCHANGED vars

Dashboard == \E c \in CustomerIds : customer_dashboard(c)

\* a request that has been reviewed: CLOSED or PAID, with its date
ReviewedRequests ==
  [service_id : {1}, customer_id : {1}, professional_id : ProfessionalIds,
   proposed_price : {100}, date_of_completion : {1},
   service_status : {CLOSED, PAID}]

\* tables that hold up to MaxReviewed reviewed requests, each with its one
\* review, rated 4 or 5
InitDashboard ==
  \E n \in 0..MaxReviewed :
     \E rows \in [1..n -> ReviewedRequests], rated \in [1..n -> {4, 5}] :
        /\ requests = [i \in 1..n |-> rows[i]]
        /\ reviews = SetToBag({NewReview(1, i, rows[i], rated[i]) : i \in 1..n})
        /\ cust_blocked = [c \in CustomerIds |-> FALSE]
        /\ professionals = [p \in ProfessionalIds |-> NewProfessional(p)]
        /\ services = AllServiceIds
        /\ sess = [w \in Workers |-> IdleSession]

NextDashboard ==
  \/ Dashboard
  \/ Pay(Few)

SpecDashboard == InitDashboard /\ [][NextDashboard]_vars

(* ---------------------------- the catalogue --------------------------- *)

\* the catalogue and the two tables whose rows name a service, as one value
Catalogue == [services |-> services, requests |-> requests, reviews |-> reviews]

\* a row whose relationship to the deleted service is cleared
WithoutService(row, sid) ==
  IF row.service_id = sid THEN [row EXCEPT !.service_id = NULL] ELSE row

\* db.session.delete(service): the unit of work clears the service_id of the
\* requests and reviews of the service (their relationships have no delete
\* cascade) and deletes the row
DeleteAttempt(cat, sid) ==
  [services |-> cat.services \ {sid},
   requests |-> [i \in Rows(cat.requests) |->
                   WithoutService(cat.requests[i], sid)],
   reviews |-> BagOfAll(LAMBDA r : WithoutService(r, sid), cat.reviews)]

\* delete_service without the count of assigned professionals
delete_service_response_unchecked(sid) ==
  IF sid \notin services THEN "404"
  ELSE IF StoreOK(DeleteAttempt(Catalogue, sid)) THEN "success"
  ELSE "db_error"

\* which branch of delete_service answers
delete_service_response(sid) ==
  IF sid \notin services THEN "404"
  ELSE IF \E p \in DOMAIN professionals : professionals[p].service_id = sid
       THEN "assigned"
  ELSE IF StoreOK(DeleteAttempt(Catalogue, sid)) THEN "success"
  ELSE "db_error"

\* the catalogue and tables delete_service leaves
delete_service_result(sid) ==
  IF delete_service_response(sid) = "success"
  THEN DeleteAttempt(Catalogue, sid)
  ELSE Catalogue

delete_service(sid) ==
  LET after == delete_service_result(sid)
  IN /\ services' = after.services
     /\ requests' = after.requests
     /\ reviews' = after.reviews
     /\ UNCHANGED <<cust_blocked, professionals, sess>>

\* create_service: a valid form adds a row under an id that is not in use
create_service(sid, valid) ==
  /\ sid \notin services
  /\ services' = IF valid THEN services \cup {sid} ELSE services
  /\ UNCHANGED <<requests, reviews, cust_blocked, professionals, sess>>

DeleteService == \E sid \in AllServiceIds \cup {NoSuchId} : delete_service(sid)

CreateService ==
  \E sid \in AllServiceIds, valid \in BOOLEAN : create_service(sid, valid)

\* book_service with a form that offers the services of the catalogue
BookOffered(in) ==
  \E c \in in.customers, p \in in.professionals,
     sid \in in.services \cap services, price \in in.prices,
     date_ok \in BOOLEAN, valid \in BOOLEAN :
     book_service(c, p, sid, price, date_ok, valid)

\* the customers and professional 1, who offers service 1; bookings for
\* service 1 and for service 3, which nobody offers
Offered ==
  [customers |-> CustomerIds, professionals |-> {1}, services |-> {1, 3},
   prices |-> {100}, ratings |-> {5}, times |-> {1}]

NextService ==
  \/ BookOffered(Offered)
  \/ Review(Offered)
  \/ Pay(Offered)
  \/ Reject
  \/ DeleteService
  \/ CreateService

SpecService == Init /\ [][NextService]_vars

(* ============================== claims ================================ *)

\* the status of request rid
StatusOf(rid) == requests[rid].service_status

\* C1: each (customer, professional) pair has at most one request whose
\* status is REQUESTED or ACCEPTED, in every reachable state.
C1_OneActivePerPair ==
  \A c \in CustomerIds, p \in ProfessionalIds :
     Cardinality(ActiveRequests(requests, c, p)) <= 1

\* the edges of the documented state diagram
Diagram ==
  {<<REQUESTED, ACCEPTED>>, <<REQUESTED, REJECTED>>, <<ACCEPTED, CLOSED>>,
   <<CLOSED, PAID>>, <<REJECTED, REQUESTED>>}

\* C2 as stated: every status change follows an edge of the state diagram,
\* so a request enters CLOSED only from ACCEPTED.
C2_DiagramOnly ==
  [][\A rid \in Rows(requests) :
       requests'[rid].service_status # StatusOf(rid)
         => <<StatusOf(rid), requests'[rid].service_status>> \in Diagram]_vars

\* C2 as amended: every status change follows an edge of the diagram or is
\* a review closing a REQUESTED or REJECTED request; a request enters CLOSED
\* only in the step that adds its first review.
C2_Transitions ==
  [][\A rid \in Rows(requests) :
       requests'[rid].service_status # StatusOf(rid)
         => /\ <<StatusOf(rid), requests'[rid].service_status>>
                 \in Diagram \cup {<<REQUESTED, CLOSED>>, <<REJECTED, CLOSED>>}
            /\ requests'[rid].service_status = CLOSED
                 => ReviewCount(reviews, rid) = 0 /\ ReviewCount(reviews', rid) = 1]_vars

\* a paid request beside an accepted one: every kind of edge but the
\* reassignment has been taken
C2_Witness ==
  \E r1, r2 \in Rows(requests) : StatusOf(r1) = PAID /\ StatusOf(r2) = ACCEPTED

\* C3: the owner's review of an unreviewed request (valid form, rating 1..5)
\* succeeds, closes the request and leaves exactly one review; the owner's
\* review of a request that has a review fails and leaves the tables as they
\* were, whether the request is CLOSED or PAID.
C3_ReviewTwice ==
  \A rid \in Rows(requests), rating \in Ratings, t \in Times :
     LET c == requests[rid].customer_id
         after == review_service_result(c, rid, rating, TRUE, t)
     IN customer_required(c) =>
          /\ (ReviewCount(reviews, rid) = 0 /\ rating \in 1..5)
               => /\ review_service_response(c, rid, rating, TRUE) = "success"
                  /\ after.requests[rid].service_status = CLOSED
                  /\ ReviewCount(after.reviews, rid) = 1
          /\ ReviewCount(reviews, rid) >= 1
               => /\ review_service_response(c, rid, rating, TRUE) = "db_error"
                  /\ StatusOf(rid) \in {CLOSED, PAID}
                  /\ after = DB

\* a reviewed request that is CLOSED and a reviewed request that is PAID
C3_Witness ==
  \E r1, r2 \in Rows(requests) :
     /\ StatusOf(r1) = CLOSED /\ ReviewCount(reviews, r1) = 1
     /\ StatusOf(r2) = PAID /\ ReviewCount(reviews, r2) = 1

\* C5: the owner's payment of a CLOSED request makes it PAID; on a request
\* that is REQUESTED, ACCEPTED, REJECTED or PAID it fails and leaves the
\* tables (status and completion date included) as they were.
C5_PaymentGuard ==
  \A rid \in Rows(requests), t \in Times :
     LET c == requests[rid].customer_id
         after == process_payment_result(c, rid, t)
     IN customer_required(c) =>
          IF StatusOf(rid) = CLOSED
          THEN /\ process_payment_response(c, rid) = "success"
               /\ after.requests[rid].service_status = PAID
          ELSE /\ process_payment_response(c, rid) = "not_closed"
               /\ after = DB

\* requests in four of the statuses payment is called on, one of them
\* already paid
C5_Witness ==
  /\ \E rid \in Rows(requests) : StatusOf(rid) = PAID
  /\ \E rid \in Rows(requests) : StatusOf(rid) \in {REQUESTED, ACCEPTED, REJECTED}

\* C6: once a request is PAID, no step of any handler changes its status.
C6_PaidIsTerminal ==
  [][\A rid \in Rows(requests) :
       StatusOf(rid) = PAID => requests'[rid].service_status = PAID]_vars

\* a paid request while another request is still open to every handler
C6_Witness ==
  \E r1, r2 \in Rows(requests) : StatusOf(r1) = PAID /\ StatusOf(r2) = REQUESTED

\* C7: reassign_professional with a professional id on a REJECTED request
\* sets the professional and the status REQUESTED together and nothing
\* else; on any other status, or without a professional id, it changes
\* nothing.
C7_Reassign ==
  \A rid \in Rows(requests), new_prof_id \in ProfessionalIds \cup {NULL} :
     LET after == reassign_professional_result(rid, new_prof_id)
     IN IF StatusOf(rid) = REJECTED /\ new_prof_id # NULL
        THEN /\ after.reviews = reviews
             /\ after.requests =
                  [requests EXCEPT ![rid].professional_id = new_prof_id,
                                   ![rid].service_status = REQUESTED]
        ELSE after = DB

\* a pair with two active requests: only a reassignment of a rejected
\* request produces it
C7_Witness ==
  \E c \in CustomerIds, p \in ProfessionalIds :
     Cardinality(ActiveRequests(requests, c, p)) = 2

\* C8: whoever calls review_service with whatever form, either the review
\* is added, the status is CLOSED and the completion date is the stamp, or
\* the tables are as they were.
C8_ReviewAtomic ==
  \A c \in CustomerIds, rid \in Rows(requests), rating \in Ratings,
     valid \in BOOLEAN, t \in Times :
     LET after == review_service_result(c, rid, rating, valid, t)
     IN \/ after = DB
        \/ /\ ReviewCount(after.reviews, rid) = ReviewCount(reviews, rid) + 1
           /\ after.requests[rid].service_status = CLOSED
           /\ after.requests[rid].date_of_completion = t

\* a request whose review went through (a second review of it fails in the
\* store) beside one that has none (a rating of 0 or 6 fails in the store)
C8_Witness ==
  \E r1, r2 \in Rows(requests) :
     /\ StatusOf(r1) = CLOSED /\ ReviewCount(reviews, r1) = 1
     /\ StatusOf(r2) \in {REQUESTED, ACCEPTED, REJECTED}
     /\ ReviewCount(reviews, r2) = 0

\* C9: update_service_request, review_service and process_payment called by
\* a customer who does not own the request answer 403 (a blocked customer
\* is sent to the login page) and leave the tables as they were.
C9_NotOwner ==
  \A c \in CustomerIds, rid \in Rows(requests) :
     requests[rid].customer_id # c =>
       /\ \A price \in Prices, valid \in BOOLEAN :
            /\ update_service_request_result(c, rid, price, valid) = DB
            /\ customer_required(c)
                 => update_service_request_response(c, rid, price, valid) = "403"
       /\ \A rating \in Ratings, valid \in BOOLEAN, t \in Times :
            /\ review_service_result(c, rid, rating, valid, t) = DB
            /\ customer_required(c)
                 => review_service_response(c, rid, rating, valid) = "403"
       /\ \A t \in Times :
            /\ process_payment_result(c, rid, t) = DB
            /\ customer_required(c) => process_payment_response(c, rid) = "403"

\* requests of customer 1 that customer 2 could try: one pending (its price
\* editable), one closed (payable)
C9_Witness ==
  \E r1, r2 \in Rows(requests) :
     /\ requests[r1].customer_id = 1 /\ StatusOf(r1) = REQUESTED
     /\ requests[r2].customer_id = 1 /\ StatusOf(r2) = CLOSED

\* C10: book_service for a pair that has a REQUESTED or ACCEPTED request
\* answers "duplicate" and leaves the tables as they were; for a pair whose
\* requests are all REJECTED, CLOSED or PAID a valid booking adds one row.
C10_DuplicateBooking ==
  \A c \in CustomerIds, p \in ProfessionalIds, sid \in ServiceIds,
     price \in Prices :
     LET mine == {i \in Rows(requests) : /\ requests[i].customer_id = c
                                         /\ requests[i].professional_id = p}
         after == book_service_result(c, p, sid, price, TRUE, TRUE)
     IN customer_required(c) =>
          IF \E i \in mine : StatusOf(i) \in {REQUESTED, ACCEPTED}
          THEN /\ book_service_response(c, p, sid, price, TRUE, TRUE) = "duplicate"
               /\ after = DB
          ELSE /\ book_service_response(c, p, sid, price, TRUE, TRUE) = "success"
               /\ after.reviews = reviews
               /\ after.requests = Append(requests, NewRequest(c, p, sid, price))

\* a pair with an accepted request (a booking is refused) and a pair whose
\* only request is rejected (a booking goes through)
C10_Witness ==
  \E r1, r2 \in Rows(requests) :
     /\ StatusOf(r1) = ACCEPTED /\ StatusOf(r2) = REJECTED
     /\ requests[r1].customer_id = requests[r2].customer_id
     /\ requests[r1].professional_id # requests[r2].professional_id

\* C4: no request ever has two review rows; and of two sessions that both
\* read a request before it had a review and both submit a rating the store
\* accepts, exactly one commits and the other fails in the store.
C4_ConcurrentReviews ==
  /\ \A rid \in Rows(requests) : ReviewCount(reviews, rid) <= 1
  /\ \A w1, w2 \in Workers :
       ( /\ w1 # w2
         /\ sess[w1].pc = "done" /\ sess[w2].pc = "done"
         /\ sess[w1].op = "review" /\ sess[w2].op = "review"
         /\ sess[w1].rid = sess[w2].rid
         /\ sess[w1].fresh /\ sess[w2].fresh
         /\ sess[w1].rating \in 1..5 /\ sess[w2].rating \in 1..5 )
       => {sess[w1].outcome, sess[w2].outcome} = {"success", "db_error"}

\* both sessions read the request unreviewed, both have finished, one
\* committed and one failed, and the request has its one review
C4_Witness ==
  /\ sess[1].pc = "done" /\ sess[2].pc = "done"
  /\ sess[1].fresh /\ sess[2].fresh
  /\ sess[1].rid = sess[2].rid
  /\ sess[1].outcome = "db_error" /\ sess[2].outcome = "success"
  /\ ReviewCount(reviews, sess[1].rid) = 1

\* C11: two bookings of the same customer for the same professional that
\* both pass the duplicate check before either commits leave at most one new
\* active request of that pair.
C11_ConcurrentBookings ==
  \A w1 \in Workers : \A w2 \in Workers \ {w1} :
    ( /\ sess[w1].pc = "done" /\ sess[w1].op = "book"
      /\ sess[w2].pc = "done" /\ sess[w2].op = "book"
      /\ sess[w1].outcome = "success" /\ sess[w2].outcome = "success"
      /\ sess[w1].loaded.customer_id = sess[w2].loaded.customer_id
      /\ sess[w1].loaded.professional_id = sess[w2].loaded.professional_id
      /\ sess[w1].seen < sess[w2].rid
      /\ sess[w2].seen < sess[w1].rid )
    => ~({sess[w1].rid, sess[w2].rid} \subseteq
            ActiveRequests(requests, sess[w1].loaded.customer_id,
                           sess[w1].loaded.professional_id))

\* C12: a reassignment and a review of the same request, both started while
\* it is REJECTED, end as one of their sequential orders would: no request
\* is REQUESTED and has a review.
C12_ReassignRacesReview ==
  \A rid \in Rows(requests) :
    StatusOf(rid) = REQUESTED => ReviewCount(reviews, rid) = 0

\* C13: whenever book_service changes the requests, it has added exactly one
\* row; the row is REQUESTED, has no completion date, belongs to the calling
\* customer and names the professional of the call; the rows that were
\* there are as they were.
C13_NewRequest ==
  \A c \in CustomerIds, p \in ProfessionalIds, sid \in ServiceIds,
     price \in Prices, date_ok \in BOOLEAN, valid \in BOOLEAN :
     LET after == book_service_result(c, p, sid, price, date_ok, valid)
         n == Len(requests)
     IN after.requests # requests =>
          /\ Len(after.requests) = n + 1
          /\ SubSeq(after.requests, 1, n) = requests
          /\ after.requests[n + 1].service_status = REQUESTED
          /\ after.requests[n + 1].date_of_completion = NULL
          /\ after.requests[n + 1].customer_id = c
          /\ after.requests[n + 1].professional_id = p
          /\ after.requests[n + 1].service_id = sid

\* a booking of customer 2 for professional 2 beside an older request that
\* has moved on
C13_Witness ==
  /\ Len(requests) = 2
  /\ StatusOf(1) = PAID
  /\ requests[2] = NewRequest(2, 2, 1, 100)

\* C14: update_service_request called by the owner of a REQUESTED request
\* with a valid price writes that price and leaves every other field, every
\* other request and the reviews as they were (an invalid form changes
\* nothing); on an ACCEPTED, REJECTED, CLOSED or PAID request it answers
\* "not_pending" and changes nothing.
C14_UpdatePrice ==
  \A rid \in Rows(requests), price \in Prices, valid \in BOOLEAN :
     LET c == requests[rid].customer_id
         after == update_service_request_result(c, rid, price, valid)
         resp == update_service_request_response(c, rid, price, valid)
     IN customer_required(c) =>
          IF StatusOf(rid) # REQUESTED
          THEN resp = "not_pending" /\ after = DB
          ELSE IF ~valid
          THEN resp = "form_invalid" /\ after = DB
          ELSE /\ resp = "success"
               /\ after.reviews = reviews
               /\ after.requests =
                    [requests EXCEPT ![rid].proposed_price = price]

\* a REQUESTED request at the second price (a change of price goes through)
\* beside a request that is past REQUESTED (a change of price is refused)
C14_Witness ==
  \E r1, r2 \in Rows(requests) :
     /\ StatusOf(r1) = REQUESTED /\ requests[r1].proposed_price = 200
     /\ StatusOf(r2) \in {ACCEPTED, REJECTED, CLOSED, PAID}
     /\ requests[r2].proposed_price = 100

\* C15: every step that adds a request adds it for a professional who, at
\* that moment, is verified and not blocked by the administrator.
C15_EligibleOnly ==
  [][Len(requests') > Len(requests) =>
       LET p == requests'[Len(requests')].professional_id
       IN professionals[p].is_verified /\ ~professionals[p].admin_blocked]_vars

\* every call customer c can make is answered by the logout and leaves the
\* requests and the reviews as they were
LoggedOut(c) ==
  /\ \A p \in ProfessionalIds, sid \in ServiceIds, price \in Prices,
        date_ok \in BOOLEAN, valid \in BOOLEAN :
        /\ book_service_response(c, p, sid, price, date_ok, valid) = "login"
        /\ book_service_result(c, p, sid, price, date_ok, valid) = DB
  /\ \A rid \in RequestIds, price \in Prices, valid \in BOOLEAN :
        /\ update_service_request_response(c, rid, price, valid) = "login"
        /\ update_service_request_result(c, rid, price, valid) = DB
  /\ \A rid \in RequestIds, rating \in Ratings, valid \in BOOLEAN,
        t \in Times :
        /\ review_service_response(c, rid, rating, valid) = "login"
        /\ review_service_result(c, rid, rating, valid, t) = DB
  /\ \A rid \in RequestIds, t \in Times :
        /\ process_payment_response(c, rid) = "login"
        /\ process_payment_result(c, rid, t) = DB

\* no call customer c can make is answered by the logout, and a valid
\* booking for a professional with whom c has no active request adds a row
TakesEffect(c) ==
  /\ \A p \in ProfessionalIds, sid \in ServiceIds, price \in Prices,
        date_ok \in BOOLEAN, valid \in BOOLEAN :
        /\ book_service_response(c, p, sid, price, date_ok, valid) # "login"
        /\ (date_ok /\ valid /\ ActiveRequests(requests, c, p) = {}) =>
             Len(book_service_result(c, p, sid, price, date_ok, valid).requests)
               = Len(requests) + 1
  /\ \A rid \in RequestIds, price \in Prices, valid \in BOOLEAN :
        update_service_request_response(c, rid, price, valid) # "login"
  /\ \A rid \in RequestIds, rating \in Ratings, valid \in BOOLEAN :
        review_service_response(c, rid, rating, valid) # "login"
  /\ \A rid \in RequestIds : process_payment_response(c, rid) # "login"

\* C16: while a customer's admin_blocked is true, each of the customer's
\* calls (booking, price update, review, payment) logs the customer out and
\* changes no request and no review; in the state a step that clears the
\* flag leaves, the customer's calls take effect again.
C16_BlockedCustomer ==
  /\ [](\A c \in CustomerIds : cust_blocked[c] => LoggedOut(c))
  /\ [][\A c \in CustomerIds :
          (cust_blocked[c] /\ ~cust_blocked'[c]) => TakesEffect(c)']_vars

\* customer 1 is blocked while owning a pending request and a closed one:
\* a price update and a payment would otherwise go through
C16_Witness ==
  /\ cust_blocked[1]
  /\ \E r1, r2 \in Rows(requests) :
        /\ requests[r1].customer_id = 1 /\ StatusOf(r1) = REQUESTED
        /\ requests[r2].customer_id = 1 /\ StatusOf(r2) = CLOSED

\* C17: through toggle_user_block and through block_user / unblock_user
\* alike, blocking or unblocking an account with a customer or professional
\* profile sets that profile's admin_blocked to the given value and leaves
\* every other flag as it was; for an account with neither profile (the
\* administrator's) no flag changes and the message is not the one of a
\* completed block or unblock.
C17_BlockUnblock ==
  \A u \in UserIds, block \in BOOLEAN :
     LET action == IF block THEN "block" ELSE "unblock"
         expected ==
           IF UserRole(u) = "customer"
           THEN [Profiles EXCEPT !.cust_blocked[UserCustomer(u)] = block]
           ELSE IF UserRole(u) = "professional"
           THEN [Profiles EXCEPT
                   !.professionals[UserProfessional(u)].admin_blocked = block]
           ELSE Profiles
     IN /\ toggle_user_block_result(u, action) = expected
        /\ toggle_block_status_result(u, block) = expected
        /\ UserRole(u) \notin {"customer", "professional"} =>
             /\ toggle_user_block_response(u, action).msg
                  \notin {"blocked", "unblocked"}
             /\ toggle_block_status_response(u, block).msg
                  \notin {"blocked", "unblocked"}

\* C18: when no professional ever accepts, a booked request is REQUESTED and
\* its owner's review with rating 5 succeeds, closing it with exactly one
\* review; a closed request has one review and its payment succeeds, making
\* it PAID; a paid request refuses a further payment and stays PAID.
C18_ReviewThenPay ==
  \A rid \in Rows(requests), t \in Times :
     LET c == requests[rid].customer_id
         reviewed == review_service_result(c, rid, 5, TRUE, t)
         paid == process_payment_result(c, rid, t)
     IN /\ StatusOf(rid) \in {REQUESTED, CLOSED, PAID}
        /\ StatusOf(rid) = REQUESTED =>
             /\ ReviewCount(reviews, rid) = 0
             /\ review_service_response(c, rid, 5, TRUE) = "success"
             /\ reviewed.requests[rid].service_status = CLOSED
             /\ ReviewCount(reviewed.reviews, rid) = 1
             /\ \A r \in BagToSet(reviewed.reviews) :
                   r.service_request_id = rid => r.rating = 5
        /\ StatusOf(rid) = CLOSED =>
             /\ ReviewCount(reviews, rid) = 1
             /\ process_payment_response(c, rid) = "success"
             /\ paid.requests[rid].service_status = PAID
             /\ paid.reviews = reviews
        /\ StatusOf(rid) = PAID =>
             /\ ReviewCount(reviews, rid) = 1
             /\ process_payment_response(c, rid) = "not_closed"
             /\ paid = DB

\* customer 1's request for professional 1, never accepted, is PAID and has
\* its review with rating 5
C18_Witness ==
  /\ Len(requests) >= 1
  /\ requests[1].customer_id = 1 /\ requests[1].professional_id = 1
  /\ StatusOf(1) = PAID
  /\ \E r \in BagToSet(reviews) : r.service_request_id = 1 /\ r.rating = 5

\* C19: the professional a request is assigned to offers the service the
\* request is for.
C19_ProfessionalOffersService ==
  \A rid \in Rows(requests) :
     requests[rid].professional_id # NULL =>
       professionals[requests[rid].professional_id].service_id
         = requests[rid].service_id

\* C20: approve_professional leaves the professional verified and not
\* failed, reject_professional leaves the professional failed and not
\* verified, whatever the flags were; a second call of the same handler
\* changes nothing more; neither touches admin_blocked, the service or
\* another professional.
C20_ApproveReject ==
  \A p \in ProfessionalIds :
     LET approved == approve_professional_result(p)
         rejected == reject_professional_result(p)
     IN /\ approved[p].is_verified /\ ~approved[p].verification_failed
        /\ ~rejected[p].is_verified /\ rejected[p].verification_failed
        /\ approved[p].admin_blocked = professionals[p].admin_blocked
        /\ rejected[p].admin_blocked = professionals[p].admin_blocked
        /\ approved[p].service_id = professionals[p].service_id
        /\ rejected[p].service_id = professionals[p].service_id
        /\ \A q \in ProfessionalIds \ {p} :
              approved[q] = professionals[q] /\ rejected[q] = professionals[q]
        /\ ApproveAttempt(approved, p) = approved
        /\ RejectAttempt(rejected, p) = rejected
        /\ (professionals[p].is_verified /\ ~professionals[p].verification_failed)
             => approved = professionals
        /\ (~professionals[p].is_verified /\ professionals[p].verification_failed)
             => rejected = professionals

\* professional 1 was rejected and is blocked, professional 2 is approved and
\* blocked: an approval of the first must clear verification_failed and keep
\* the block
C20_Witness ==
  /\ professionals[1].verification_failed /\ ~professionals[1].is_verified
  /\ professionals[1].admin_blocked
  /\ professionals[2].is_verified /\ ~professionals[2].verification_failed
  /\ professionals[2].admin_blocked

\* C21: no professional is verified and failed at once, whatever approvals,
\* rejections, blocks and unblocks have happened since registration.
C21_NeverBothFlags ==
  \A p \in ProfessionalIds :
     ~(professionals[p].is_verified /\ professionals[p].verification_failed)

\* professional 1 is approved and not blocked, professional 2 is rejected and
\* not blocked: both handlers have written the flags
C21_Witness ==
  /\ professionals[1].is_verified /\ ~professionals[1].admin_blocked
  /\ professionals[2].verification_failed /\ ~professionals[2].admin_blocked

\* C22: every professional's service_id names a row of the catalogue, and
\* delete_service on a service some professional offers answers that it is
\* assigned and leaves the catalogue, the requests and the reviews as they
\* were.
C22_ServiceInUse ==
  /\ \A p \in ProfessionalIds : professionals[p].service_id \in services
  /\ \A sid \in AllServiceIds :
        (\E p \in ProfessionalIds : professionals[p].service_id = sid) =>
           /\ delete_service_response(sid) = "assigned"
           /\ delete_service_result(sid) = Catalogue

\* the service nobody offers has been deleted while a request exists
C22_Witness ==
  /\ services = ServiceIds
  /\ Len(requests) >= 1

\* C23: every review has a rating from 1 to 5, and review_service called
\* with a rating outside 1..5, by anyone, on any request, with a form that
\* validates or not, leaves the requests and the reviews as they were.
C23_RatingRange ==
  /\ \A r \in BagToSet(reviews) : r.rating \in 1..5
  /\ \A c \in CustomerIds, rid \in RequestIds, rating \in Ratings \ (1..5),
        valid \in BOOLEAN, t \in Times :
        review_service_result(c, rid, rating, valid, t) = DB

\* a reviewed request beside a request of the same customer that has no
\* review yet: a rating of 0 or 6 for the second reaches the store
C23_Witness ==
  \E r1, r2 \in Rows(requests) :
     /\ requests[r1].customer_id = requests[r2].customer_id
     /\ ReviewCount(reviews, r1) = 1
     /\ ReviewCount(reviews, r2) = 0 /\ StatusOf(r2) = REQUESTED

\* C24: every review names an existing request, and its customer is the
\* customer who owns that request.
C24_ReviewByOwner ==
  \A r \in BagToSet(reviews) :
     /\ r.service_request_id \in Rows(requests)
     /\ r.customer_id = requests[r.service_request_id].customer_id

\* each of the two customers has reviewed a request
C24_Witness ==
  \E r1, r2 \in BagToSet(reviews) : r1.customer_id = 1 /\ r2.customer_id = 2

\* how many of the first n requests are professional p's and CLOSED
RECURSIVE ClosedAmong(_, _, _)
ClosedAmong(reqs, p, n) ==
  IF n = 0 THEN 0
  ELSE ClosedAmong(reqs, p, n - 1)
       + (IF reqs[n].professional_id = p /\ reqs[n].service_status = CLOSED
          THEN 1 ELSE 0)

\* C25: the dashboard's jobs_count of a professional is the number of that
\* professional's requests that are CLOSED, PAID ones not included: a
\* review that succeeds raises the count of the request's professional by
\* one, and a payment that succeeds lowers it by one.
C25_CompletedJobs ==
  /\ \A p \in ProfessionalIds :
        jobs_count(requests, p) = ClosedAmong(requests, p, Len(requests))
  /\ \A rid \in Rows(requests), t \in Times :
        LET c == requests[rid].customer_id
            p == requests[rid].professional_id
            reviewed == review_service_result(c, rid, 5, TRUE, t)
            paid == process_payment_result(c, rid, t)
        IN /\ review_service_response(c, rid, 5, TRUE) = "success" =>
                jobs_count(reviewed.requests, p) = jobs_count(requests, p) + 1
           /\ process_payment_response(c, rid) = "success" =>
                jobs_count(paid.requests, p) = jobs_count(requests, p) - 1

\* professional 1 has a paid job and a closed job: the count is 1, not 2
C25_Witness ==
  /\ Len(requests) = 2
  /\ requests[1].professional_id = 1 /\ requests[2].professional_id = 1
  /\ StatusOf(1) = PAID /\ StatusOf(2) = CLOSED
  /\ jobs_count(requests, 1) = 1

\* how many reviews of professional p carry rating k
Rated(p, k) ==
  Cardinality({r \in BagToSet(reviews) : r.professional_id = p /\ r.rating = k})

\* C26 as stated: the rating the dashboard shows for a professional is the
\* mean of the ratings of the professional's reviews, 0 when there are none.
C26_ExactMean ==
  \A p \in ProfessionalIds :
     LET n == Rated(p, 1) + Rated(p, 2) + Rated(p, 3) + Rated(p, 4) + Rated(p, 5)
         s == Rated(p, 1) + 2 * Rated(p, 2) + 3 * Rated(p, 3)
                + 4 * Rated(p, 4) + 5 * Rated(p, 5)
     IN IF n = 0 THEN shown_rating(reviews, p) = 0
        ELSE shown_rating(reviews, p) * n = 10 * s

\* C26: avg_rating is the mean of the ratings of the professional's reviews
\* and 0 when there are none; the rating the dashboard shows is that mean
\* rounded to one decimal place: it is a number of tenths that lies within
\* half a tenth of the mean.
C26_RoundedMean ==
  \A p \in ProfessionalIds :
     LET n == Rated(p, 1) + Rated(p, 2) + Rated(p, 3) + Rated(p, 4) + Rated(p, 5)
         s == Rated(p, 1) + 2 * Rated(p, 2) + 3 * Rated(p, 3)
                + 4 * Rated(p, 4) + 5 * Rated(p, 5)
         shown == shown_rating(reviews, p)
     IN IF n = 0
        THEN avg_rating(reviews, p) = [num |-> 0, den |-> 1] /\ shown = 0
        ELSE /\ avg_rating(reviews, p) = [num |-> s, den |-> n]
             /\ 2 * (10 * s - shown * n) <= n
             /\ 2 * (shown * n - 10 * s) <= n

\* professional 1 has three reviews rated 5, 5 and 4 (mean 14/3, shown as
\* 4.7) and professional 2 has none (shown as 0)
C26_Witness ==
  /\ Rated(1, 5) = 2 /\ Rated(1, 4) = 1
  /\ shown_rating(reviews, 1) = 47
  /\ Rated(2, 4) + Rated(2, 5) = 0
  /\ shown_rating(reviews, 2) = 0

\* every request of table before is in table after, with the customer and
\* the service it had
SameIdentity(before, after) ==
  /\ Len(after) >= Len(before)
  /\ \A i \in Rows(before) :
        /\ after[i].customer_id = before[i].customer_id
        /\ after[i].service_id = before[i].service_id

\* whatever its inputs, none of book_service, update_service_request,
\* review_service, process_payment and reassign_professional leaves a table
\* from which a request is gone or in which a request has another customer
\* or service
HandlersKeepIdentity ==
  /\ \A c \in CustomerIds, p \in ProfessionalIds, sid \in ServiceIds,
        price \in Prices, date_ok \in BOOLEAN, valid \in BOOLEAN :
        SameIdentity(requests,
          book_service_result(c, p, sid, price, date_ok, valid).requests)
  /\ \A c \in CustomerIds, rid \in RequestIds, price \in Prices,
        valid \in BOOLEAN :
        SameIdentity(requests,
          update_service_request_result(c, rid, price, valid).requests)
  /\ \A c \in CustomerIds, rid \in RequestIds, rt \in Ratings,
        valid \in BOOLEAN, t \in Times :
        SameIdentity(requests,
          review_service_result(c, rid, rt, valid, t).requests)
  /\ \A c \in CustomerIds, rid \in RequestIds, t \in Times :
        SameIdentity(requests, process_payment_result(c, rid, t).requests)
  /\ \A rid \in RequestIds, new_prof_id \in ProfessionalIds \cup {NULL} :
        SameIdentity(requests,
          reassign_professional_result(rid, new_prof_id).requests)

\* C27: no call of a customer's or of the reassignment handler, whatever its
\* inputs, and no step at all, the administrator's approvals, rejections,
\* blocks and unblocks included, removes a request or changes the customer
\* or the service of a request: a request, once created, stays with its
\* owner and service.
C27_RequestsPersist ==
  /\ []HandlersKeepIdentity
  /\ [][SameIdentity(requests, requests')]_vars

\* two requests, one paid and one rejected and so open to reassignment,
\* while the customer is blocked and professional 1 is approved
C27_Witness ==
  /\ Len(requests) = 2
  /\ StatusOf(1) = PAID /\ StatusOf(2) = REJECTED
  /\ cust_blocked[1]
  /\ professionals[1].is_verified

\* C28: when the handlers run one after another, a request that is CLOSED
\* or PAID has exactly one review and a request that is REQUESTED, ACCEPTED
\* or REJECTED has none.
C28_ReviewIffClosed ==
  \A rid \in Rows(requests) :
     ReviewCount(reviews, rid) =
       IF StatusOf(rid) \in {CLOSED, PAID} THEN 1 ELSE 0

\* a paid request with its review beside an accepted request without one
C28_Witness ==
  \E r1, r2 \in Rows(requests) :
     /\ StatusOf(r1) = PAID /\ ReviewCount(reviews, r1) = 1
     /\ StatusOf(r2) = ACCEPTED /\ ReviewCount(reviews, r2) = 0

\* C29: every review carries the professional and the service of the
\* request it reviews; so the professional of a reviewed request never
\* changes.
C29_ReviewMatchesRequest ==
  \A r \in BagToSet(reviews) :
     /\ r.service_request_id \in Rows(requests)
     /\ r.professional_id = requests[r.service_request_id].professional_id
     /\ r.service_id = requests[r.service_request_id].service_id

\* C30: a request has a completion date exactly when it is CLOSED or PAID.
C30_CompletionDate ==
  \A rid \in Rows(requests) :
     (requests[rid].date_of_completion # NULL) <=>
       (StatusOf(rid) \in {CLOSED, PAID})

====
